---- MODULE Spec2Model ----
(***************************************************************************)
(* Model of the decode cascade of iPvtPpr.py (decode_hashlink) and of the  *)
(* composer (generate_hashlink).                                           *)
(*                                                                         *)
(* Text is a sequence of code points, a byte string a sequence of numbers  *)
(* in 0..255.  The transport codec (base64), the UTF-8 conversions, the    *)
(* percent-encoding and the three regular expressions are computed as the  *)
(* Python library computes them.  The compression library is modelled by   *)
(* its container framing (a 13-byte header, a body, an end marker); the    *)
(* legacy decompressor and the HTTP client are capabilities whose answers  *)
(* are chosen nondeterministically.                                        *)
(***************************************************************************)
EXTENDS Integers, Sequences, FiniteSets, TLC

(***************************************************************************)
(* Bounds of the model.                                                    *)
(***************************************************************************)
\* longest document text (in code points) handed to the composer
MaxDocLen == 2
\* number of different junk fillings tried for a junk prefix
MaxJunkKinds == 2

\* records another call may write to the log while the call runs
MaxOtherRecords == 2

(***************************************************************************)
(* Characters named by the source.                                         *)
(***************************************************************************)
HASH == 35
SLASH == 47
QMARK == 63
PAD == 61
NEWLINE == 10
PERCENT == 37

\* "https://itty.bitty.site/"
Prefix == <<104, 116, 116, 112, 115, 58, 47, 47, 105, 116, 116, 121, 46, 98,
            105, 116, 116, 121, 46, 115, 105, 116, 101, 47>>

\* "data:text/html;charset=utf-8;base64,"
Marker == <<100, 97, 116, 97, 58, 116, 101, 120, 116, 47, 104, 116, 109, 108,
            59, 99, 104, 97, 114, 115, 101, 116, 61, 117, 116, 102, 45, 56,
            59, 98, 97, 115, 101, 54, 52, 44>>

\* "Title Goes Here", the placeholder of TitleTextInput
TitlePlaceholder == <<84, 105, 116, 108, 101, 32, 71, 111, 101, 115, 32, 72,
                      101, 114, 101>>

(***************************************************************************)
(* Sequence helpers (Python slicing and searching).                        *)
(***************************************************************************)
\* s[i:] with i counted from 0
DropFirst(s, n) == IF n >= Len(s) THEN << >> ELSE SubSeq(s, n + 1, Len(s))

\* s[:n]
TakeFirst(s, n) == IF n >= Len(s) THEN s ELSE SubSeq(s, 1, n)

\* does w occur in s starting at (1-based) position p
OccursAt(s, w, p) ==
    /\ p >= 1
    /\ p + Len(w) - 1 <= Len(s)
    /\ \A k \in 1..Len(w) : s[p + k - 1] = w[k]

\* x * n for a one-character string, as in '=' * padding
Repeat(c, n) == [k \in 1..n |-> c]

\* the end of the longest run of characters other than newline that
\* starts at p ('.*')
LineEnd(s, p) ==
    LET nl == {q \in p..Len(s) : s[q] = NEWLINE} IN
    IF nl = {} THEN Len(s)
    ELSE (CHOOSE q \in nl : \A r \in nl : q <= r) - 1

(***************************************************************************)
(* UTF-8: str.encode() and bytes.decode('utf-8').                          *)
(***************************************************************************)
IsSurrogate(cp) == cp >= 55296 /\ cp <= 57343

Utf8EncodeChar(cp) ==
    IF cp < 128 THEN <<cp>>
    ELSE IF cp < 2048 THEN <<192 + (cp \div 64), 128 + (cp % 64)>>
    ELSE IF cp < 65536
         THEN <<224 + (cp \div 4096), 128 + ((cp \div 64) % 64),
                128 + (cp % 64)>>
    ELSE <<240 + (cp \div 262144), 128 + ((cp \div 4096) % 64),
           128 + ((cp \div 64) % 64), 128 + (cp % 64)>>

RECURSIVE Utf8EncodeFrom(_, _)
Utf8EncodeFrom(text, i) ==
    IF i > Len(text) THEN << >>
    ELSE Utf8EncodeChar(text[i]) \o Utf8EncodeFrom(text, i + 1)

\* str.encode(): raises on a lone surrogate
Utf8Encodable(text) == \A i \in 1..Len(text) : ~IsSurrogate(text[i])

Utf8Encode(text) == Utf8EncodeFrom(text, 1)

IsCont(b) == b >= 128 /\ b <= 191

\* strict decoder: [ok |-> FALSE] stands for UnicodeDecodeError
RECURSIVE Utf8DecodeFrom(_, _, _)
Utf8DecodeFrom(b, i, acc) ==
    IF i > Len(b) THEN [ok |-> TRUE, text |-> acc]
    ELSE LET c == b[i]
             n == Len(b)
         IN
         IF c < 128 THEN Utf8DecodeFrom(b, i + 1, Append(acc, c))
         ELSE IF c >= 194 /\ c <= 223
         THEN IF i + 1 <= n /\ IsCont(b[i + 1])
              THEN Utf8DecodeFrom(b, i + 2,
                       Append(acc, (c - 192) * 64 + (b[i + 1] - 128)))
              ELSE [ok |-> FALSE, text |-> << >>]
         ELSE IF c >= 224 /\ c <= 239
         THEN IF /\ i + 2 <= n
                 /\ IsCont(b[i + 1])
                 /\ IsCont(b[i + 2])
                 /\ (c = 224 => b[i + 1] >= 160)
                 /\ (c = 237 => b[i + 1] <= 159)
              THEN Utf8DecodeFrom(b, i + 3,
                       Append(acc, (c - 224) * 4096 + (b[i + 1] - 128) * 64
                                   + (b[i + 2] - 128)))
              ELSE [ok |-> FALSE, text |-> << >>]
         ELSE IF c >= 240 /\ c <= 244
         THEN IF /\ i + 3 <= n
                 /\ IsCont(b[i + 1])
                 /\ IsCont(b[i + 2])
                 /\ IsCont(b[i + 3])
                 /\ (c = 240 => b[i + 1] >= 144)
                 /\ (c = 244 => b[i + 1] <= 143)
              THEN Utf8DecodeFrom(b, i + 4,
                       Append(acc, (c - 240) * 262144
                                   + (b[i + 1] - 128) * 4096
                                   + (b[i + 2] - 128) * 64
                                   + (b[i + 3] - 128)))
              ELSE [ok |-> FALSE, text |-> << >>]
         ELSE [ok |-> FALSE, text |-> << >>]

Utf8Decode(b) == Utf8DecodeFrom(b, 1, << >>)

(***************************************************************************)
(* Transport codec: base64.b64encode and base64.b64decode (non-strict).    *)
(***************************************************************************)
\* the character of a 6-bit value
B64Char(v) ==
    IF v < 26 THEN 65 + v
    ELSE IF v < 52 THEN 97 + (v - 26)
    ELSE IF v < 62 THEN 48 + (v - 52)
    ELSE IF v = 62 THEN 43
    ELSE 47

\* the 6-bit value of a character, -1 for a character outside the alphabet
B64Val(c) ==
    IF c >= 65 /\ c <= 90 THEN c - 65
    ELSE IF c >= 97 /\ c <= 122 THEN c - 97 + 26
    ELSE IF c >= 48 /\ c <= 57 THEN c - 48 + 52
    ELSE IF c = 43 THEN 62
    ELSE IF c = 47 THEN 63
    ELSE 0 - 1

RECURSIVE B64EncodeFrom(_, _)
B64EncodeFrom(b, i) ==
    LET n == Len(b) IN
    IF i > n THEN << >>
    ELSE IF i = n
    THEN <<B64Char(b[i] \div 4), B64Char((b[i] % 4) * 16), PAD, PAD>>
    ELSE IF i + 1 = n
    THEN <<B64Char(b[i] \div 4),
           B64Char(((b[i] % 4) * 16) + (b[i + 1] \div 16)),
           B64Char((b[i + 1] % 16) * 4), PAD>>
    ELSE <<B64Char(b[i] \div 4),
           B64Char(((b[i] % 4) * 16) + (b[i + 1] \div 16)),
           B64Char(((b[i + 1] % 16) * 4) + (b[i + 2] \div 64)),
           B64Char(b[i + 2] % 64)>> \o B64EncodeFrom(b, i + 3)

B64Encode(b) == B64EncodeFrom(b, 1)

\* binascii.a2b_base64 without strict mode.  Characters outside the
\* alphabet are skipped.  A '=' met while the open quad holds q >= 2 data
\* characters is counted, and the decoding ends at the '=' that brings
\* q + pads to 4; a data character resets the count.  A quad left open at
\* the end of the input is an error.
IsData(c) == B64Val(c) >= 0

\* data characters before position i
DataBefore(s, i) == Cardinality({j \in 1..(i - 1) : IsData(s[j])})

\* '=' characters before position i and after the last data character
PadsBefore(s, i) ==
    Cardinality({j \in 1..(i - 1) :
                    /\ s[j] = PAD
                    /\ \A k \in (j + 1)..(i - 1) : ~IsData(s[k])})

\* positions of a '=' that ends the decoding
PadStops(s) ==
    {i \in 1..Len(s) :
        /\ s[i] = PAD
        /\ DataBefore(s, i) % 4 >= 2
        /\ (DataBefore(s, i) % 4) + PadsBefore(s, i) + 1 >= 4}

A2bBase64(s) ==
    LET stops == PadStops(s)
        stop == IF stops = {} THEN Len(s) + 1
                ELSE CHOOSE i \in stops : \A j \in stops : i <= j
        data == SelectSeq(SubSeq(s, 1, stop - 1), IsData)
        n == Len(data)
        v(j) == B64Val(data[j])
        count == ((n \div 4) * 3)
                 + (IF n % 4 = 2 THEN 1 ELSE IF n % 4 = 3 THEN 2 ELSE 0)
        byte(k) ==
            LET g == 4 * ((k - 1) \div 3)
                r == (k - 1) % 3
            IN IF r = 0 THEN (v(g + 1) * 4) + (v(g + 2) \div 16)
               ELSE IF r = 1 THEN ((v(g + 2) % 16) * 16) + (v(g + 3) \div 4)
               ELSE ((v(g + 3) % 4) * 64) + v(g + 4)
    IN
    IF stops = {} /\ n % 4 # 0 THEN [kind |-> "binascii", bytes |-> << >>]
    ELSE [kind |-> "ok", bytes |-> [k \in 1..count |-> byte(k)]]

\* base64.b64decode(str): a non-ASCII character raises ValueError before
\* the decoding starts, a malformed string raises binascii.Error
B64Decode(s) ==
    IF \E i \in 1..Len(s) : s[i] > 127
    THEN [kind |-> "value", bytes |-> << >>]
    ELSE A2bBase64(s)

(***************************************************************************)
(* urllib.parse.quote(title, safe=''): every byte of the UTF-8 encoding    *)
(* that is not a letter, a digit or one of "_.-~" becomes %XX.             *)
(***************************************************************************)
HexDigit(v) == IF v < 10 THEN 48 + v ELSE 55 + v

IsUnreserved(b) ==
    \/ (b >= 65 /\ b <= 90)
    \/ (b >= 97 /\ b <= 122)
    \/ (b >= 48 /\ b <= 57)
    \/ b \in {95, 46, 45, 126}

RECURSIVE QuoteFrom(_, _)
QuoteFrom(b, i) ==
    IF i > Len(b) THEN << >>
    ELSE (IF IsUnreserved(b[i]) THEN <<b[i]>>
          ELSE <<PERCENT, HexDigit(b[i] \div 16), HexDigit(b[i] % 16)>>)
         \o QuoteFrom(b, i + 1)

Quote(text) == QuoteFrom(Utf8Encode(text), 1)

(***************************************************************************)
(* Compression capability: lzma.compress / lzma.decompress with            *)
(* FORMAT_ALONE.  The container is kept (a properties byte, four bytes of  *)
(* dictionary size, eight bytes of uncompressed size, then a body whose    *)
(* first byte is zero); the entropy coding of the body is replaced by a    *)
(* delta coding of flagged literals closed by an end-of-stream flag.       *)
(***************************************************************************)
\* header written by lzma.compress(..., format=FORMAT_ALONE, preset=9):
\* properties 0x5D, dictionary 64 MiB, size unknown
LzmaHeader == <<93, 0, 0, 0, 4, 255, 255, 255, 255, 255, 255, 255, 255>>

HeaderLen == 13
MaxProps == 224
LitFlag == 1
EosFlag == 2

RECURSIVE LzmaLiterals(_, _, _)
LzmaLiterals(data, i, prev) ==
    IF i > Len(data) THEN <<EosFlag>>
    ELSE <<LitFlag, (data[i] - prev + 256) % 256>>
         \o LzmaLiterals(data, i + 1, data[i])

LzmaCompress(data) == LzmaHeader \o <<0>> \o LzmaLiterals(data, 1, 0)

\* the body of one stream from position i on; remaining < 0 when the header
\* leaves the size unknown
RECURSIVE LzmaBody(_, _, _, _, _)
LzmaBody(b, i, prev, remaining, acc) ==
    IF remaining = 0
    THEN [ok |-> TRUE, data |-> acc, rest |-> DropFirst(b, i - 1)]
    ELSE IF i > Len(b) THEN [ok |-> FALSE, data |-> << >>, rest |-> << >>]
    ELSE IF b[i] = EosFlag /\ remaining < 0
    THEN [ok |-> TRUE, data |-> acc, rest |-> DropFirst(b, i)]
    ELSE IF b[i] = LitFlag /\ i + 1 <= Len(b)
    THEN LET v == (prev + b[i + 1]) % 256 IN
         LzmaBody(b, i + 2, v,
                  IF remaining < 0 THEN remaining ELSE remaining - 1,
                  Append(acc, v))
    ELSE [ok |-> FALSE, data |-> << >>, rest |-> << >>]

\* one stream: [ok |-> FALSE] stands for LZMAError
LzmaDecodeStream(b) ==
    IF Len(b) < HeaderLen + 1 \/ b[1] > MaxProps \/ b[HeaderLen + 1] # 0
    THEN [ok |-> FALSE, data |-> << >>, rest |-> << >>]
    ELSE IF \A k \in 6..HeaderLen : b[k] = 255
    THEN LzmaBody(b, HeaderLen + 2, 0, 0 - 1, << >>)
    ELSE IF \E k \in 8..HeaderLen : b[k] # 0
    THEN [ok |-> FALSE, data |-> << >>, rest |-> << >>]
    ELSE LzmaBody(b, HeaderLen + 2, 0, b[6] + (256 * b[7]), << >>)

\* lzma.decompress: the first stream must decode; what follows it is
\* decoded as further streams as long as it decodes, else ignored
RECURSIVE LzmaMore(_, _)
LzmaMore(rest, acc) ==
    IF rest = << >> THEN [ok |-> TRUE, data |-> acc]
    ELSE LET s == LzmaDecodeStream(rest) IN
         IF s.ok THEN LzmaMore(s.rest, acc \o s.data)
         ELSE [ok |-> TRUE, data |-> acc]

LzmaDecompress(b) ==
    LET s == LzmaDecodeStream(b) IN
    IF s.ok THEN LzmaMore(s.rest, s.data)
    ELSE [ok |-> FALSE, data |-> << >>]

(***************************************************************************)
(* Hashlink grammar: the two regular expressions of decode_hashlink,       *)
(* applied with re.match, and the split used when neither matches.         *)
(***************************************************************************)
NoMatch == [matched |-> FALSE, title |-> << >>, payload |-> << >>]

\* positions of the first '#' after the prefix, all characters between the
\* prefix and it being other than '#'  ("[^#]*#")
FirstHash(h) ==
    IF \E p \in (Len(Prefix) + 1)..Len(h) : h[p] = HASH
    THEN CHOOSE p \in (Len(Prefix) + 1)..Len(h) :
            /\ h[p] = HASH
            /\ \A q \in (Len(Prefix) + 1)..(p - 1) : h[q] # HASH
    ELSE 0

\* can "(?:[^/]*)/?(?:#|/)?" consume exactly the characters hp+1 .. m-1
RerouteGap(h, hp, m) ==
    \E b \in {0, 1}, c \in {0, 1} :
        LET e == m - b - c IN
        /\ e >= hp + 1
        /\ \A q \in (hp + 1)..(e - 1) : h[q] # SLASH
        /\ (b = 1 => h[e] = SLASH)
        /\ (c = 1 => h[e + b] \in {HASH, SLASH})

\* r"https://itty\.bitty\.site/[^#]*#(?:[^/]*)/?(?:#|/)?
\*   data:text/html;charset=utf-8;base64,(.+)"
RerouteMatch(h) ==
    LET hp == FirstHash(h)
        starts == IF OccursAt(h, Prefix, 1) /\ hp > 0
                  THEN { m \in (hp + 1)..Len(h) :
                           /\ OccursAt(h, Marker, m)
                           /\ RerouteGap(h, hp, m)
                           /\ m + Len(Marker) <= Len(h)
                           /\ h[m + Len(Marker)] # NEWLINE }
                  ELSE {}
    IN
    IF starts = {} THEN NoMatch
    ELSE LET m == CHOOSE x \in starts : \A y \in starts : x >= y
             g == m + Len(Marker)
         IN [matched |-> TRUE, title |-> << >>,
             payload |-> SubSeq(h, g, LineEnd(h, g))]

\* r"https://itty\.bitty\.site/#(.*?)/\?(.*)"
StandardMatch(h) ==
    LET t == Len(Prefix) + 2
        seps == IF OccursAt(h, Prefix, 1) /\ Len(h) > Len(Prefix)
                   /\ h[Len(Prefix) + 1] = HASH
                THEN { q \in t..(Len(h) - 1) :
                         /\ h[q] = SLASH
                         /\ h[q + 1] = QMARK
                         /\ \A r \in t..(q - 1) : h[r] # NEWLINE }
                ELSE {}
    IN
    IF seps = {} THEN NoMatch
    ELSE LET q == CHOOSE x \in seps : \A y \in seps : x <= y IN
         [matched |-> TRUE, title |-> SubSeq(h, t, q - 1),
          payload |-> SubSeq(h, q + 2, LineEnd(h, q + 2))]

\* the text after the first '/?' of the hashlink
LastSplitFirst(h) ==
    LET seps == { q \in 1..(Len(h) - 1) : h[q] = SLASH /\ h[q + 1] = QMARK }
    IN
    IF seps = {} THEN h
    ELSE LET q == CHOOSE x \in seps : \A y \in seps : x <= y IN
         DropFirst(h, q + 1)

\* hashlink.split('/?')[-1]
LastSplit(h) ==
    LET seps == { q \in 1..(Len(h) - 1) : h[q] = SLASH /\ h[q + 1] = QMARK }
    IN
    IF seps = {} THEN h
    ELSE LET q == CHOOSE x \in seps : \A y \in seps : x >= y IN
         DropFirst(h, q + 1)

(***************************************************************************)
(* Composer: generate_hashlink, from the rendered document on.             *)
(***************************************************************************)
\* title_input.value or title_input.placeholder
TitleOrPlaceholder(title) == IF title = << >> THEN TitlePlaceholder ELSE title

\* a composer that puts the title into the fragment as it is
GenerateHashlinkUnquoted(title, html_content) ==
    Prefix \o <<HASH>> \o TitleOrPlaceholder(title)
           \o <<SLASH, QMARK>>
           \o B64Encode(LzmaCompress(Utf8Encode(html_content)))

GenerateHashlink(title, html_content) ==
    Prefix \o <<HASH>> \o Quote(TitleOrPlaceholder(title))
           \o <<SLASH, QMARK>>
           \o B64Encode(LzmaCompress(Utf8Encode(html_content)))

(***************************************************************************)
(* Pages returned by the official site.  A page is a sequence of tokens:   *)
(* the markup the source searches for is one token each, anything else is  *)
(* an ordinary character.                                                  *)
(***************************************************************************)
\* '<div id="toast">'
TOAST_OPEN == 1001
\* '<button onclick="dismiss()">I understand</button>'
BUTTON == 1002
\* '<script>dismiss();</script>'
SCRIPT_DISMISS == 1003
\* '</div>'
DIV_CLOSE == 1004
\* '<script nomodule> location.href = "/v1/" + location.hash </script>'
REDIRECT == 1005
\* '<body ...>'
BODY_OPEN == 1006
\* '</body>'
BODY_CLOSE == 1007
SPACE == 32

Contains(page, tok) == \E i \in 1..Len(page) : page[i] = tok

\* html.replace(button, '<script>dismiss();</script>')
ReplaceButton(page) ==
    [i \in 1..Len(page) |-> IF page[i] = BUTTON THEN SCRIPT_DISMISS
                            ELSE page[i]]

\* first position >= p holding tok, 0 if there is none
RECURSIVE FindFrom(_, _, _)
FindFrom(page, tok, p) ==
    IF p > Len(page) THEN 0
    ELSE IF page[p] = tok THEN p
    ELSE FindFrom(page, tok, p + 1)

\* re.sub(r'<div id="toast".*?</div>', '', html, flags=re.DOTALL)
RECURSIVE RemoveToastFrom(_, _)
RemoveToastFrom(page, p) ==
    IF p > Len(page) THEN << >>
    ELSE IF page[p] = TOAST_OPEN /\ FindFrom(page, DIV_CLOSE, p + 1) > 0
    THEN RemoveToastFrom(page, FindFrom(page, DIV_CLOSE, p + 1) + 1)
    ELSE <<page[p]>> \o RemoveToastFrom(page, p + 1)

\* lines 213-216 and 226-229: the consent overlay handling
AcceptToast(page) ==
    IF Contains(page, TOAST_OPEN)
    THEN RemoveToastFrom(ReplaceButton(page), 1)
    ELSE page

\* str.strip()
RECURSIVE Strip(_)
Strip(t) ==
    IF t = << >> THEN t
    ELSE IF Head(t) = SPACE \/ Head(t) = NEWLINE THEN Strip(Tail(t))
    ELSE IF t[Len(t)] = SPACE \/ t[Len(t)] = NEWLINE
    THEN Strip(SubSeq(t, 1, Len(t) - 1))
    ELSE t

\* re.search(r'<body[^>]*>(.*?)</body>', html, IGNORECASE | DOTALL)
BodyMatch(page) ==
    LET o == FindFrom(page, BODY_OPEN, 1)
        c == IF o = 0 THEN 0 ELSE FindFrom(page, BODY_CLOSE, o + 1)
    IN
    IF c = 0 THEN [matched |-> FALSE, body |-> << >>]
    ELSE [matched |-> TRUE, body |-> SubSeq(page, o + 1, c - 1)]

\* hashlink.split('#')[1]: the text between the first '#' and the second
\* one (or the end); [ok |-> FALSE] stands for IndexError
HashPart(h) ==
    LET hs == {i \in 1..Len(h) : h[i] = HASH} IN
    IF hs = {} THEN [ok |-> FALSE, part |-> << >>]
    ELSE LET first == CHOOSE i \in hs : \A j \in hs : i <= j
             later == hs \ {first}
             last == IF later = {} THEN Len(h)
                     ELSE (CHOOSE i \in later : \A j \in later : i <= j) - 1
         IN [ok |-> TRUE, part |-> SubSeq(h, first + 1, last)]

\* "https://itty.bitty.site/v1/#" + hash_part
RetryUrl(hash_part) == Prefix \o <<118, 49, SLASH, HASH>> \o hash_part

(***************************************************************************)
(* Version labels and messages of decode_hashlink.                         *)
(***************************************************************************)
VUnknown == "Unknown"
VReroute == "PvtPpr v0 (reroute)"
VStandard == "IBS v1 / PvtPpr v1"
VLegacy == "PvtPpr v0 (JS worker)"
VFallback == "Fail-safe (official site)"
VFallbackRetry == "Fail-safe (official site) (via v1 retry)"

\* a list of skip offsets with a wrong second entry
header_lengths_shifted == <<0, 4, 9, 13>>

\* a list of skip offsets that lacks the last entry
header_lengths_short == <<0, 5, 9>>

\* header_lengths = [0, 5, 9, 13]
header_lengths == <<0, 5, 9, 13>>

\* a padding loop that stops after one repair character
PaddingCountsTwo == 4 - 2

\* a padding loop that runs once more
PaddingCountsFive == 4 + 1

\* range(4)
PaddingCounts == 4

(***************************************************************************)
(* Inputs.  A hashlink is either emitted by the composer or received from  *)
(* elsewhere; `made` remembers how the received one was put together.      *)
(***************************************************************************)
NA == 0 - 1

\* 'h' and U+00E9
DocChars == {104, 233}

Docs == UNION { [1..n -> DocChars] : n \in 0..MaxDocLen }

\* "<p>hi</p>"
ExampleDoc == <<60, 112, 62, 104, 105, 60, 47, 112, 62>>

ComposerDocs == Docs \cup {ExampleDoc}

\* "", "t", "a b", "a/?#", "data:"
Titles == {<< >>, <<116>>, <<97, 32, 98>>, <<97, 47, 63, 35>>,
           <<100, 97, 116, 97, 58>>}

\* byte strings that are no UTF-8
RawData == {<<255>>, <<104, 195>>}

\* junk put in front of a stream: filling 1 repeats the stream header,
\* filling 2 is zeros, any further filling f is the byte 256 - f
JunkFill(f, k) ==
    IF f = 1 THEN TakeFirst(LzmaHeader, k)
    ELSE IF f = 2 THEN Repeat(0, k)
    ELSE Repeat(256 - f, k)

\* remove the trailing padding of a transport string
RECURSIVE StripPad(_)
StripPad(s) ==
    IF s # << >> /\ s[Len(s)] = PAD THEN StripPad(SubSeq(s, 1, Len(s) - 1))
    ELSE s

\* the four offsets the decoder tries, and one it does not
JunkLens == {0, 4, 5, 9, 13}

Framed ==
    [by : {"framed"}, title : {<<116>>},
     data : {Utf8Encode(d) : d \in Docs} \cup RawData,
     k : JunkLens, fill : 1..MaxJunkKinds, strip : BOOLEAN,
     path : {<< >>}, sep : {<<SLASH, QMARK>>}, text : {<< >>}]

\* "/?", "#", "/", "/#", "//", ""
RerouteSeps == {<<SLASH, QMARK>>, <<HASH>>, <<SLASH>>, <<SLASH, HASH>>,
                <<SLASH, SLASH>>, << >>}

\* "aGVsbG8=" (hello), "aGVsbG8", "a", "/w==" (the byte 255), U+00E9
ReroutePayloads == {<<97, 71, 86, 115, 98, 71, 56, 61>>,
                    <<97, 71, 86, 115, 98, 71, 56>>,
                    <<97>>, <<47, 119, 61, 61>>, <<233>>}

Rerouted ==
    [by : {"reroute"}, title : {<< >>, <<116>>}, data : {<< >>},
     k : {0}, fill : {0}, strip : {FALSE},
     path : {<< >>, <<118, 49, SLASH>>}, sep : RerouteSeps,
     text : ReroutePayloads]

OtherLinks == {
        \* the empty string
        << >>,
        \* no separator at all
        <<97, 98, 99>>,
        \* a payload after '/?' on a foreign host
        <<120, 47, 63, 97, 71, 107, 61>>,
        \* prefix, fragment without '/?'
        Prefix \o <<35, 116>>,
        \* standard shape, empty payload
        Prefix \o <<35, 116, 47, 63>>,
        \* payload of length 1 mod 4
        Prefix \o <<35, 116, 47, 63, 97>>,
        \* payload that is base64 but no stream
        Prefix \o <<35, 116, 47, 63, 97, 71, 107, 61>>,
        \* the same without its padding
        Prefix \o <<35, 116, 47, 63, 97, 71, 107>>,
        \* non-ASCII payload
        Prefix \o <<35, 116, 47, 63, 233>>,
        \* payload cut by a newline
        Prefix \o <<35, 116, 47, 63, 97, 71, 10, 107, 61>>,
        \* two '#'
        Prefix \o <<35, 97, 35, 98, 47, 63, 97, 71, 107, 61>>,
        \* a path before the fragment
        Prefix \o <<118, 49, 47, 35, 116, 47, 63, 97, 71, 107, 61>>,
        \* two '/?' separators
        Prefix \o <<35, 116, 47, 63, 120, 47, 63, 97, 71, 107, 61>>,
        \* a query and no fragment
        Prefix \o <<63, 97, 71, 107, 61>>,
        \* two '/?' separators on a foreign host
        <<120, 47, 63, 121, 47, 63, 97, 71, 107, 61>>,
        \* the stream of "h" in base64, followed by one more '='
        Prefix \o <<35, 116, 47, 63>> \o B64Encode(LzmaCompress(<<104>>))
               \o <<PAD>>
    }

Others ==
    [by : {"other"}, title : {<< >>}, data : {<< >>}, k : {0}, fill : {0},
     strip : {FALSE}, path : {<< >>}, sep : {<< >>}, text : OtherLinks]

Received == Framed \cup Rerouted \cup Others

\* the payload of a framed input: junk, then the stream
FramedBytes(m) == JunkFill(m.fill, m.k) \o LzmaCompress(m.data)

FramedPayload(m) ==
    IF m.strip THEN StripPad(B64Encode(FramedBytes(m)))
    ELSE B64Encode(FramedBytes(m))

HashlinkOf(m) ==
    IF m.by = "framed"
    THEN Prefix \o <<HASH>> \o m.title \o m.sep \o FramedPayload(m)
    ELSE IF m.by = "reroute"
    THEN Prefix \o m.path \o <<HASH>> \o m.title \o m.sep \o Marker \o m.text
    ELSE m.text

(***************************************************************************)
(* Answers of the capabilities.                                            *)
(***************************************************************************)
\* execjs: the worker may fail to compile or to run (execjs.Error or some
\* other exception), or evaluate to a string, to bytes or to anything else
JsAnswers ==
    [stage : {"compile", "eval"}, kind : {"execjs", "exception"},
     value : {<< >>}]
    \cup [stage : {"eval"}, kind : {"str"}, value : {<<106>>}]
    \cup [stage : {"eval"}, kind : {"bytes"}, value : {<<106>>, <<255>>}]
    \cup [stage : {"eval"}, kind : {"other"}, value : {<< >>}]

Pages == {
        <<BODY_OPEN, 120, BODY_CLOSE>>,
        <<120>>,
        <<REDIRECT, BODY_OPEN, 121, BODY_CLOSE>>,
        <<REDIRECT>>,
        <<TOAST_OPEN, BUTTON, DIV_CLOSE, BODY_OPEN, SPACE, 122, SPACE,
          BODY_CLOSE>>,
        <<BODY_OPEN, TOAST_OPEN, REDIRECT, BODY_CLOSE, DIV_CLOSE>>,
        <<TOAST_OPEN, BODY_OPEN, 119, BODY_CLOSE>>
    }

STATUS_OK == 200

\* requests.get: ConnectionError, another exception (a timeout), or a
\* response with a status and a page
GetAnswers ==
    [kind : {"connection", "exception"}, status : {0}, page : {<< >>}]
    \cup [kind : {"response"}, status : {404}, page : {<< >>}]
    \cup [kind : {"response"}, status : {STATUS_OK}, page : Pages]

(***************************************************************************)
(* State of one decode_hashlink call.                                      *)
(***************************************************************************)
VARIABLES
    pc,             \* position in the call
    made,           \* how the hashlink was produced
    hashlink,       \* the argument of decode_hashlink
    version,        \* the local variable version
    standard_match, \* the result of the standard regular expression
    b64_part,       \* the payload being decoded
    padding,        \* loop variable of the padding loop
    skip_ix,        \* index into header_lengths of the skip loop
    compressed,     \* the bytes of the last successful transport decode
    html_content,   \* the page of the first response, after overlay handling
    gets,           \* the GETs issued so far, in order, with their answers
    js_answer,      \* what the legacy decompressor answered
    log,            \* the records written to the diagnostic log
    result          \* the value returned, NoResult before the return

vars == <<pc, made, hashlink, version, standard_match, b64_part, padding,
          skip_ix, compressed, html_content, gets, js_answer, log, result>>

NoResult == [kind |-> "none", doc |-> << >>, err |-> "", version |-> ""]

Success(doc, v) == [kind |-> "ok", doc |-> doc, err |-> "", version |-> v]

Failure(err, v) == [kind |-> "fail", doc |-> << >>, err |-> err, version |-> v]

Rec(msg, p, k) == [msg |-> msg, padding |-> p, skip |-> k]

\* one requests.get(url, timeout=10) and what it answered
Get(url, answer) == [url |-> url, kind |-> answer.kind,
                     status |-> answer.status, page |-> answer.page]

\* the legacy decompressor has not been asked
NoAnswer == [stage |-> "none", kind |-> "none", value |-> << >>]

NoInput ==
    [by |-> "none", title |-> << >>, data |-> << >>, k |-> 0, fill |-> 0,
     strip |-> FALSE, path |-> << >>, sep |-> << >>, text |-> << >>]

Init ==
    /\ pc = "idle"
    /\ made = NoInput
    /\ hashlink = << >>
    /\ version = VUnknown
    /\ standard_match = NoMatch
    /\ b64_part = << >>
    /\ padding = 0
    /\ skip_ix = 1
    /\ compressed = << >>
    /\ html_content = << >>
    /\ gets = << >>
    /\ js_answer = NoAnswer
    /\ log = << >>
    /\ result = NoResult

\* an exception that no handler catches leaves the call without a value
UnexpectedEscapes(records, v) ==
    /\ log' = log \o records
    /\ result' = NoResult
    /\ pc' = "done"

\* a handler that reports the failure under the label set before the try
UnexpectedUnlabelled(records, v) ==
    /\ log' = log \o records \o <<Rec("unexpected", NA, NA)>>
    /\ result' = Failure("unexpected", VUnknown)
    /\ pc' = "done"

\* the handler of line 257: any exception not caught further in
Unexpected(records, v) ==
    /\ log' = log \o records \o <<Rec("unexpected", NA, NA)>>
    /\ result' = Failure("unexpected", v)
    /\ pc' = "done"

\* generate_hashlink, then the call decode_hashlink(hashlink)
Compose ==
    /\ pc = "idle"
    /\ \E title \in Titles, doc \in ComposerDocs :
        /\ Utf8Encodable(doc)
        /\ Utf8Encodable(TitleOrPlaceholder(title))
        /\ made' = [by |-> "composer", title |-> title,
                    data |-> Utf8Encode(doc), k |-> 0, fill |-> 0,
                    strip |-> FALSE, path |-> << >>,
                    sep |-> <<SLASH, QMARK>>, text |-> doc]
        /\ hashlink' = GenerateHashlink(title, doc)
    /\ pc' = "reroute"
    /\ UNCHANGED js_answer
    /\ UNCHANGED <<version, standard_match, b64_part, padding, skip_ix,
                   compressed, html_content, gets, log, result>>

\* the call decode_hashlink(hashlink) on a hashlink from elsewhere
Receive ==
    /\ pc = "idle"
    /\ \E m \in Received :
        /\ made' = m
        /\ hashlink' = HashlinkOf(m)
    /\ pc' = "reroute"
    /\ UNCHANGED js_answer
    /\ UNCHANGED <<version, standard_match, b64_part, padding, skip_ix,
                   compressed, html_content, gets, log, result>>

\* a reroute payload that decodes no better than its plain failure would
\* let the cascade go on
RerouteInvalidFallsThrough ==
    /\ log' = log \o <<Rec("start", NA, NA), Rec("reroute check", NA, NA),
                       Rec("reroute invalid", NA, NA)>>
    /\ pc' = "standard"
    /\ UNCHANGED result

\* lines 151-153: the reroute payload does not decode
RerouteInvalid ==
    /\ log' = log \o <<Rec("start", NA, NA), Rec("reroute check", NA, NA),
                       Rec("reroute invalid", NA, NA)>>
    /\ result' = Failure("invalid reroute", VReroute)
    /\ pc' = "done"

\* lines 140-153: strategy 1
RerouteCheck ==
    /\ pc = "reroute"
    /\ \E reroute_match \in {RerouteMatch(hashlink)} :
       \E d \in {B64Decode(reroute_match.payload)} :
       \E u \in {Utf8Decode(d.bytes)} :
       IF reroute_match.matched
       THEN /\ version' = VReroute
            /\ IF d.kind = "ok" /\ u.ok
               THEN /\ result' = Success(u.text, VReroute)
                    /\ log' = log \o <<Rec("start", NA, NA),
                                       Rec("reroute check", NA, NA),
                                       Rec("reroute success", NA, NA)>>
                    /\ pc' = "done"
               ELSE RerouteInvalid
       ELSE /\ pc' = "standard"
            /\ log' = Append(log, Rec("start", NA, NA))
            /\ UNCHANGED <<version, result>>
    /\ UNCHANGED js_answer
    /\ UNCHANGED <<made, hashlink, standard_match, b64_part, padding,
                   skip_ix, compressed, html_content, gets>>

\* a standard check that consults the log: strategy 2 is skipped once any
\* call has recorded that it opened it
StandardCheckShared ==
    /\ pc = "standard"
    /\ standard_match' = StandardMatch(hashlink)
    /\ IF /\ standard_match'.matched
          /\ \A i \in 1..Len(log) : log[i].msg # "standard check"
       THEN /\ version' = VStandard
            /\ b64_part' = standard_match'.payload
            /\ padding' = 0
            /\ log' = Append(log, Rec("standard check", NA, NA))
            /\ pc' = "padding"
       ELSE /\ pc' = "legacy"
            /\ UNCHANGED <<version, b64_part, padding, log>>
    /\ UNCHANGED js_answer
    /\ UNCHANGED <<made, hashlink, skip_ix, compressed, html_content, gets,
                   result>>

\* lines 156-160: the standard shape
StandardCheck ==
    /\ pc = "standard"
    /\ standard_match' = StandardMatch(hashlink)
    /\ IF standard_match'.matched
       THEN /\ version' = VStandard
            /\ b64_part' = standard_match'.payload
            /\ padding' = 0
            /\ log' = Append(log, Rec("standard check", NA, NA))
            /\ pc' = "padding"
       ELSE /\ pc' = "legacy"
            /\ UNCHANGED <<version, b64_part, padding, log>>
    /\ UNCHANGED js_answer
    /\ UNCHANGED <<made, hashlink, skip_ix, compressed, html_content, gets,
                   result>>

\* giving up on strategy 2 after the first padding count
NextPaddingGivesUp ==
    /\ pc' = "legacy"
    /\ UNCHANGED padding

\* a loop that at times gives up before the last padding count
NextPaddingEither ==
    \/ /\ padding + 1 < PaddingCounts
       /\ padding' = padding + 1
       /\ pc' = "padding"
    \/ /\ pc' = "legacy"
       /\ UNCHANGED padding

\* what follows a padding count whose attempts have all failed
NextPadding ==
    IF padding + 1 < PaddingCounts
    THEN /\ padding' = padding + 1
         /\ pc' = "padding"
    ELSE /\ pc' = "legacy"
         /\ UNCHANGED padding

\* lines 162-166 and 176-178: one transport decode of strategy 2
PaddingAttempt ==
    /\ pc = "padding"
    /\ \E padded_b64 \in {b64_part \o Repeat(PAD, padding)} :
       \E d \in {B64Decode(padded_b64)} :
       LET attempt == Rec("padding attempt", padding, NA) IN
       IF d.kind = "ok"
       THEN /\ compressed' = d.bytes
            /\ skip_ix' = 1
            /\ pc' = "skip"
            /\ log' = Append(log, attempt)
            /\ UNCHANGED <<padding, result>>
       ELSE IF d.kind = "binascii"
       THEN /\ log' = log \o <<attempt, Rec("padding failed", padding, NA)>>
            /\ NextPadding
            /\ UNCHANGED <<compressed, skip_ix, result>>
       ELSE /\ Unexpected(<<attempt>>, version)
            /\ UNCHANGED <<compressed, skip_ix, padding>>
    /\ UNCHANGED js_answer
    /\ UNCHANGED <<made, hashlink, version, standard_match, b64_part,
                   html_content, gets>>

\* lines 168-175: one decompression of strategy 2
SkipAttempt ==
    /\ pc = "skip"
    /\ LET skip == header_lengths[skip_ix]
           decompressed == LzmaDecompress(DropFirst(compressed, skip))
           u == Utf8Decode(decompressed.data)
       IN
       IF decompressed.ok
       THEN IF u.ok
            THEN /\ log' = Append(log, Rec("padding success", padding, skip))
                 /\ result' = Success(u.text, version)
                 /\ pc' = "done"
                 /\ UNCHANGED <<padding, skip_ix>>
            ELSE /\ Unexpected(<<Rec("padding success", padding, skip)>>,
                               version)
                 /\ UNCHANGED <<padding, skip_ix>>
       ELSE /\ log' = Append(log, Rec("lzma error", padding, skip))
            /\ UNCHANGED result
            /\ IF skip_ix < Len(header_lengths)
               THEN /\ skip_ix' = skip_ix + 1
                    /\ UNCHANGED <<pc, padding>>
               ELSE /\ NextPadding
                    /\ UNCHANGED skip_ix
    /\ UNCHANGED js_answer
    /\ UNCHANGED <<made, hashlink, version, standard_match, b64_part,
                   compressed, html_content, gets>>

\* lines 181-202: strategy 3
LegacyAttempt ==
    /\ pc = "legacy"
    /\ version' = VLegacy
    /\ \E js \in JsAnswers :
        LET part == IF standard_match.matched THEN standard_match.payload
                    ELSE LastSplit(hashlink)
            padded_b64 == part \o Repeat(PAD, (4 - (Len(part) % 4)) % 4)
            d == B64Decode(padded_b64)
            attempt == Rec("js attempt", NA, NA)
            failed(cause) ==
                /\ log' = log \o <<attempt, Rec(cause, NA, NA)>>
                /\ pc' = "fetch"
                /\ UNCHANGED result
        IN
        /\ js_answer' = js
        /\ IF js.stage = "compile"
           THEN /\ UNCHANGED <<b64_part, compressed>>
                /\ IF js.kind = "execjs" THEN failed("js failed: execjs")
                   ELSE Unexpected(<<attempt>>, VLegacy)
           ELSE /\ b64_part' = part
                /\ IF d.kind = "binascii"
                   THEN failed("js failed: binascii") /\ UNCHANGED compressed
                   ELSE IF d.kind = "value"
                   THEN Unexpected(<<attempt>>, VLegacy) /\ UNCHANGED compressed
                   ELSE /\ compressed' = d.bytes
                        /\ IF js.kind = "execjs"
                           THEN failed("js failed: execjs")
                           ELSE IF js.kind = "exception"
                           THEN Unexpected(<<attempt>>, VLegacy)
                           ELSE IF js.kind = "str"
                           THEN /\ log' = log \o <<attempt,
                                               Rec("js success", NA, NA)>>
                                /\ result' = Success(js.value, VLegacy)
                                /\ pc' = "done"
                           ELSE IF js.kind = "bytes"
                           THEN IF Utf8Decode(js.value).ok
                                THEN /\ log' = log \o <<attempt,
                                                   Rec("js success", NA, NA)>>
                                     /\ result' =
                                          Success(Utf8Decode(js.value).text,
                                                  VLegacy)
                                     /\ pc' = "done"
                                ELSE Unexpected(<<attempt,
                                                  Rec("js success", NA, NA)>>,
                                                VLegacy)
                           ELSE /\ log' = Append(log, attempt)
                                /\ pc' = "fetch"
                                /\ UNCHANGED result
    /\ UNCHANGED <<made, hashlink, standard_match, padding, skip_ix,
                   html_content, gets>>

\* a first GET that keeps the page as it was received: the overlay is still
\* in it when the redirect marker is searched and the body is extracted
FetchInitialKeepsOverlay ==
    /\ pc = "fetch"
    /\ version' = VFallback
    /\ \E response \in GetAnswers :
        LET attempt == Rec("fetch attempt", NA, NA) IN
        /\ gets' = Append(gets, Get(hashlink, response))
        /\ IF response.kind = "connection"
           THEN /\ log' = log \o <<attempt, Rec("no network", NA, NA)>>
                /\ result' = Failure("no connectivity", VFallback)
                /\ pc' = "done"
                /\ UNCHANGED html_content
           ELSE IF response.kind = "exception"
           THEN /\ log' = log \o <<attempt, Rec("fetch failed", NA, NA)>>
                /\ result' = Failure("fetch failed", VFallback)
                /\ pc' = "done"
                /\ UNCHANGED html_content
           ELSE IF response.status # STATUS_OK
           THEN /\ log' = log \o <<attempt, Rec("initial status", NA, NA)>>
                /\ result' = Failure("bad status", VFallback)
                /\ pc' = "done"
                /\ UNCHANGED html_content
           ELSE /\ html_content' = response.page
                /\ log' = log \o <<attempt, Rec("fetch response", NA, NA)>>
                             \o (IF Contains(response.page, TOAST_OPEN)
                                 THEN <<Rec("toast accepted", NA, NA)>>
                                 ELSE << >>)
                /\ pc' = "redirect"
                /\ UNCHANGED result
    /\ UNCHANGED js_answer
    /\ UNCHANGED <<made, hashlink, standard_match, b64_part, padding,
                   skip_ix, compressed>>

\* lines 205-216 and 246-254: the first GET of strategy 4
FetchInitial ==
    /\ pc = "fetch"
    /\ version' = VFallback
    /\ \E response \in GetAnswers :
        LET attempt == Rec("fetch attempt", NA, NA) IN
        /\ gets' = Append(gets, Get(hashlink, response))
        /\ IF response.kind = "connection"
           THEN /\ log' = log \o <<attempt, Rec("no network", NA, NA)>>
                /\ result' = Failure("no connectivity", VFallback)
                /\ pc' = "done"
                /\ UNCHANGED html_content
           ELSE IF response.kind = "exception"
           THEN /\ log' = log \o <<attempt, Rec("fetch failed", NA, NA)>>
                /\ result' = Failure("fetch failed", VFallback)
                /\ pc' = "done"
                /\ UNCHANGED html_content
           ELSE IF response.status # STATUS_OK
           THEN /\ log' = log \o <<attempt, Rec("initial status", NA, NA)>>
                /\ result' = Failure("bad status", VFallback)
                /\ pc' = "done"
                /\ UNCHANGED html_content
           ELSE /\ html_content' = AcceptToast(response.page)
                /\ log' = log \o <<attempt, Rec("fetch response", NA, NA)>>
                             \o (IF Contains(response.page, TOAST_OPEN)
                                 THEN <<Rec("toast accepted", NA, NA)>>
                                 ELSE << >>)
                /\ pc' = "redirect"
                /\ UNCHANGED result
    /\ UNCHANGED js_answer
    /\ UNCHANGED <<made, hashlink, standard_match, b64_part, padding,
                   skip_ix, compressed>>

\* lines 218-237: the version redirect and the retried GET
FetchRetry ==
    /\ pc = "redirect"
    /\ IF ~Contains(html_content, REDIRECT)
       THEN /\ pc' = "extract"
            /\ UNCHANGED <<gets, log, result>>
       ELSE LET hash_part == HashPart(hashlink) IN
            IF ~hash_part.ok
            THEN \* hashlink.split('#')[1] raises IndexError
                 /\ log' = Append(log, Rec("fetch failed", NA, NA))
                 /\ result' = Failure("fetch failed", version)
                 /\ pc' = "done"
                 /\ UNCHANGED gets
            ELSE \E retry_response \in GetAnswers :
                     LET notice == Rec("redirect retry", NA, NA)
                         retry_html == AcceptToast(retry_response.page)
                         body_match == BodyMatch(retry_html)
                     IN
                     /\ gets' = Append(gets, Get(RetryUrl(hash_part.part),
                                                 retry_response))
                     /\ IF retry_response.kind = "connection"
                        THEN /\ log' = log \o <<notice,
                                                Rec("no network", NA, NA)>>
                             /\ result' = Failure("no connectivity", version)
                             /\ pc' = "done"
                        ELSE IF retry_response.kind = "exception"
                        THEN /\ log' = log \o <<notice,
                                                Rec("fetch failed", NA, NA)>>
                             /\ result' = Failure("fetch failed", version)
                             /\ pc' = "done"
                        ELSE IF retry_response.status # STATUS_OK
                        THEN /\ log' = log \o <<notice,
                                                Rec("retry status", NA, NA)>>
                             /\ pc' = "extract"
                             /\ UNCHANGED result
                        ELSE IF body_match.matched
                        THEN /\ log' = log \o <<notice>>
                                    \o (IF Contains(retry_response.page,
                                                    TOAST_OPEN)
                                        THEN <<Rec("toast accepted retry",
                                                   NA, NA)>>
                                        ELSE << >>)
                                    \o <<Rec("fetch success retry", NA, NA)>>
                             /\ result' = Success(Strip(body_match.body),
                                                  VFallbackRetry)
                             /\ pc' = "done"
                        ELSE /\ log' = log \o <<notice>>
                                    \o (IF Contains(retry_response.page,
                                                    TOAST_OPEN)
                                        THEN <<Rec("toast accepted retry",
                                                   NA, NA)>>
                                        ELSE << >>)
                                    \o <<Rec("no body retry", NA, NA)>>
                             /\ pc' = "extract"
                             /\ UNCHANGED result
    /\ UNCHANGED js_answer
    /\ UNCHANGED <<made, hashlink, version, standard_match, b64_part,
                   padding, skip_ix, compressed, html_content>>

\* lines 238-245: body extraction from the first response
ExtractInitial ==
    /\ pc = "extract"
    /\ LET body_match == BodyMatch(html_content) IN
       IF body_match.matched
       THEN /\ log' = Append(log, Rec("fetch success", NA, NA))
            /\ result' = Success(Strip(body_match.body), version)
       ELSE /\ log' = Append(log, Rec("no body initial", NA, NA))
            /\ result' = Failure("no content", version)
    /\ pc' = "done"
    /\ UNCHANGED js_answer
    /\ UNCHANGED <<made, hashlink, version, standard_match, b64_part,
                   padding, skip_ix, compressed, html_content, gets>>

Next ==
    \/ Compose
    \/ Receive
    \/ RerouteCheck
    \/ StandardCheck
    \/ PaddingAttempt
    \/ SkipAttempt
    \/ LegacyAttempt
    \/ FetchInitial
    \/ FetchRetry
    \/ ExtractInitial

Spec == Init /\ [][Next]_vars

\* a step of a call that has been made
CallStep ==
    \/ RerouteCheck
    \/ StandardCheck
    \/ PaddingAttempt
    \/ SkipAttempt
    \/ LegacyAttempt
    \/ FetchInitial
    \/ FetchRetry
    \/ ExtractInitial

\* the interpreter runs a call to its return: no step waits on anything
\* but a capability, and each capability answers or raises (timeout=10)
FairSpec == Spec /\ WF_vars(CallStep)

(***************************************************************************)
(* Calls running at the same time.  A call shares nothing with another     *)
(* call but the log that both append to; the records of the other call     *)
(* carry the short form of its hashlink.                                   *)
(***************************************************************************)
OtherMsgs == {"start", "standard check"}

OtherRec(msg) ==
    [msg |-> msg, padding |-> NA, skip |-> NA, short_hashlink |-> "other"]

IsOther(r) == "short_hashlink" \in DOMAIN r

IsOwn(r) == ~IsOther(r)

\* a logging call of another decode_hashlink call
OtherCallLogs ==
    /\ Len(SelectSeq(log, IsOther)) < MaxOtherRecords
    /\ \E msg \in OtherMsgs : log' = Append(log, OtherRec(msg))
    /\ UNCHANGED <<pc, made, hashlink, version, standard_match, b64_part,
                   padding, skip_ix, compressed, html_content, gets,
                   js_answer, result>>

\* a stream of "h" behind five junk bytes, the payload "a", and a reroute
\* link of "hello"
ConcurrentInputs ==
    {m \in Framed : /\ m.data = <<104>>
                    /\ m.k = 5
                    /\ m.fill = 1
                    /\ ~m.strip}
    \cup {m \in Others : m.text = Prefix \o <<35, 116, 47, 63, 97>>}
    \cup {m \in Rerouted : /\ m.sep = <<HASH>>
                          /\ m.title = << >>
                          /\ m.path = << >>
                          /\ m.text = <<97, 71, 86, 115, 98, 71, 56, 61>>}

\* the call has been made
InitConcurrent ==
    /\ pc = "reroute"
    /\ made \in ConcurrentInputs
    /\ hashlink = HashlinkOf(made)
    /\ version = VUnknown
    /\ standard_match = NoMatch
    /\ b64_part = << >>
    /\ padding = 0
    /\ skip_ix = 1
    /\ compressed = << >>
    /\ html_content = << >>
    /\ gets = << >>
    /\ js_answer = NoAnswer
    /\ log = << >>
    /\ result = NoResult

NextConcurrent ==
    \/ CallStep
    \/ OtherCallLogs

ConcurrentSpec == InitConcurrent /\ [][NextConcurrent]_vars

(***************************************************************************)
(* decode_hashlink as a function.  The call has no state but its argument  *)
(* and its locals, so one step of it is written as a function of them and  *)
(* of the answer of the capability the step asks: the legacy decompressor  *)
(* (js) or requests.get (response).                                        *)
(***************************************************************************)
\* the argument, the locals, the records and the value of the call
Call ==
    [pc |-> pc, hashlink |-> hashlink, version |-> version,
     standard_match |-> standard_match, b64_part |-> b64_part,
     padding |-> padding, skip_ix |-> skip_ix, compressed |-> compressed,
     html_content |-> html_content, gets |-> gets, js_answer |-> js_answer,
     log |-> log, result |-> result]

\* logging calls, then on to the statement at `to`
Logged(c, records, to) == [c EXCEPT !.log = @ \o records, !.pc = to]

\* logging calls, then a return statement
Returned(c, records, value) ==
    [c EXCEPT !.log = @ \o records, !.result = value, !.pc = "done"]

\* lines 257-259
Raised(c, records) ==
    Returned(c, records \o <<Rec("unexpected", NA, NA)>>,
             Failure("unexpected", c.version))

\* lines 140-153
RerouteOf(c) ==
    LET reroute_match == RerouteMatch(c.hashlink)
        d == B64Decode(reroute_match.payload)
        u == Utf8Decode(d.bytes)
        c1 == [c EXCEPT !.version = VReroute]
        opened == <<Rec("start", NA, NA), Rec("reroute check", NA, NA)>>
    IN
    IF ~reroute_match.matched
    THEN Logged(c, <<Rec("start", NA, NA)>>, "standard")
    ELSE IF d.kind = "ok" /\ u.ok
    THEN Returned(c1, opened \o <<Rec("reroute success", NA, NA)>>,
                  Success(u.text, VReroute))
    ELSE Returned(c1, opened \o <<Rec("reroute invalid", NA, NA)>>,
                  Failure("invalid reroute", VReroute))

\* lines 156-160
StandardOf(c) ==
    LET m == StandardMatch(c.hashlink) IN
    IF m.matched
    THEN Logged([c EXCEPT !.standard_match = m, !.version = VStandard,
                          !.b64_part = m.payload, !.padding = 0],
                <<Rec("standard check", NA, NA)>>, "padding")
    ELSE [c EXCEPT !.standard_match = m, !.pc = "legacy"]

\* the next iteration of the loop of line 162, or line 181 after the last
AfterPadding(c) ==
    IF c.padding + 1 < PaddingCounts
    THEN [c EXCEPT !.padding = @ + 1, !.pc = "padding"]
    ELSE [c EXCEPT !.pc = "legacy"]

\* lines 162-166 and 176-178
PaddingOf(c) ==
    LET d == B64Decode(c.b64_part \o Repeat(PAD, c.padding))
        attempt == Rec("padding attempt", c.padding, NA)
    IN
    IF d.kind = "ok"
    THEN Logged([c EXCEPT !.compressed = d.bytes, !.skip_ix = 1],
                <<attempt>>, "skip")
    ELSE IF d.kind = "binascii"
    THEN AfterPadding(Logged(c, <<attempt,
                                  Rec("padding failed", c.padding, NA)>>,
                             c.pc))
    ELSE Raised(c, <<attempt>>)

\* lines 168-175
SkipOf(c) ==
    LET skip == header_lengths[c.skip_ix]
        decompressed == LzmaDecompress(DropFirst(c.compressed, skip))
        u == Utf8Decode(decompressed.data)
        success == Rec("padding success", c.padding, skip)
        failed == Logged(c, <<Rec("lzma error", c.padding, skip)>>, c.pc)
    IN
    IF decompressed.ok
    THEN IF u.ok THEN Returned(c, <<success>>, Success(u.text, c.version))
         ELSE Raised(c, <<success>>)
    ELSE IF c.skip_ix < Len(header_lengths)
    THEN [failed EXCEPT !.skip_ix = @ + 1]
    ELSE AfterPadding(failed)

\* lines 181-202
LegacyOf(c, js) ==
    LET part == IF c.standard_match.matched THEN c.standard_match.payload
                ELSE LastSplit(c.hashlink)
        d == B64Decode(part \o Repeat(PAD, (4 - (Len(part) % 4)) % 4))
        attempt == Rec("js attempt", NA, NA)
        success == Rec("js success", NA, NA)
        c1 == [c EXCEPT !.version = VLegacy, !.js_answer = js]
        c2 == [c1 EXCEPT !.b64_part = part]
        c3 == [c2 EXCEPT !.compressed = d.bytes]
    IN
    IF js.stage = "compile"
    THEN IF js.kind = "execjs"
         THEN Logged(c1, <<attempt, Rec("js failed: execjs", NA, NA)>>,
                     "fetch")
         ELSE Raised(c1, <<attempt>>)
    ELSE IF d.kind = "binascii"
    THEN Logged(c2, <<attempt, Rec("js failed: binascii", NA, NA)>>, "fetch")
    ELSE IF d.kind = "value" THEN Raised(c2, <<attempt>>)
    ELSE IF js.kind = "execjs"
    THEN Logged(c3, <<attempt, Rec("js failed: execjs", NA, NA)>>, "fetch")
    ELSE IF js.kind = "exception" THEN Raised(c3, <<attempt>>)
    ELSE IF js.kind = "str"
    THEN Returned(c3, <<attempt, success>>, Success(js.value, VLegacy))
    ELSE IF js.kind = "bytes"
    THEN IF Utf8Decode(js.value).ok
         THEN Returned(c3, <<attempt, success>>,
                       Success(Utf8Decode(js.value).text, VLegacy))
         ELSE Raised(c3, <<attempt, success>>)
    ELSE Logged(c3, <<attempt>>, "fetch")

\* the overlay record of lines 216 and 229
ToastRecord(page, msg) ==
    IF Contains(page, TOAST_OPEN) THEN <<Rec(msg, NA, NA)>> ELSE << >>

\* lines 205-216 and 246-254
FetchOf(c, response) ==
    LET attempt == Rec("fetch attempt", NA, NA)
        c1 == [c EXCEPT !.version = VFallback,
                        !.gets = Append(@, Get(c.hashlink, response))]
    IN
    IF response.kind = "connection"
    THEN Returned(c1, <<attempt, Rec("no network", NA, NA)>>,
                  Failure("no connectivity", VFallback))
    ELSE IF response.kind = "exception"
    THEN Returned(c1, <<attempt, Rec("fetch failed", NA, NA)>>,
                  Failure("fetch failed", VFallback))
    ELSE IF response.status # STATUS_OK
    THEN Returned(c1, <<attempt, Rec("initial status", NA, NA)>>,
                  Failure("bad status", VFallback))
    ELSE Logged([c1 EXCEPT !.html_content = AcceptToast(response.page)],
                <<attempt, Rec("fetch response", NA, NA)>>
                   \o ToastRecord(response.page, "toast accepted"),
                "redirect")

\* lines 218-237
RetryOf(c, retry_response) ==
    LET hash_part == HashPart(c.hashlink)
        notice == Rec("redirect retry", NA, NA)
        retry_html == AcceptToast(retry_response.page)
        body_match == BodyMatch(retry_html)
        c1 == [c EXCEPT !.gets = Append(@, Get(RetryUrl(hash_part.part),
                                               retry_response))]
        toast == ToastRecord(retry_response.page, "toast accepted retry")
    IN
    IF ~Contains(c.html_content, REDIRECT) THEN [c EXCEPT !.pc = "extract"]
    ELSE IF ~hash_part.ok
    THEN Returned(c, <<Rec("fetch failed", NA, NA)>>,
                  Failure("fetch failed", c.version))
    ELSE IF retry_response.kind = "connection"
    THEN Returned(c1, <<notice, Rec("no network", NA, NA)>>,
                  Failure("no connectivity", c.version))
    ELSE IF retry_response.kind = "exception"
    THEN Returned(c1, <<notice, Rec("fetch failed", NA, NA)>>,
                  Failure("fetch failed", c.version))
    ELSE IF retry_response.status # STATUS_OK
    THEN Logged(c1, <<notice, Rec("retry status", NA, NA)>>, "extract")
    ELSE IF body_match.matched
    THEN Returned(c1, <<notice>> \o toast
                         \o <<Rec("fetch success retry", NA, NA)>>,
                  Success(Strip(body_match.body), VFallbackRetry))
    ELSE Logged(c1, <<notice>> \o toast \o <<Rec("no body retry", NA, NA)>>,
                "extract")

\* lines 238-245
ExtractOf(c) ==
    LET body_match == BodyMatch(c.html_content) IN
    IF body_match.matched
    THEN Returned(c, <<Rec("fetch success", NA, NA)>>,
                  Success(Strip(body_match.body), c.version))
    ELSE Returned(c, <<Rec("no body initial", NA, NA)>>,
                  Failure("no content", c.version))

\* one step of the call in state c, given the answers js and response
NextOf(c, js, response) ==
    IF c.pc = "reroute" THEN RerouteOf(c)
    ELSE IF c.pc = "standard" THEN StandardOf(c)
    ELSE IF c.pc = "padding" THEN PaddingOf(c)
    ELSE IF c.pc = "skip" THEN SkipOf(c)
    ELSE IF c.pc = "legacy" THEN LegacyOf(c, js)
    ELSE IF c.pc = "fetch" THEN FetchOf(c, response)
    ELSE IF c.pc = "redirect" THEN RetryOf(c, response)
    ELSE IF c.pc = "extract" THEN ExtractOf(c)
    ELSE c

\* the answer of the latest GET, if there was one
LastResponse(g) ==
    IF g = << >> THEN [kind |-> "none", status |-> 0, page |-> << >>]
    ELSE [kind |-> g[Len(g)].kind, status |-> g[Len(g)].status,
          page |-> g[Len(g)].page]

(***************************************************************************)
(* Reading the diagnostic log.                                             *)
(***************************************************************************)
HasRec(msg) == \E i \in 1..Len(log) : log[i].msg = msg

HasAt(msg, p, k) == \E i \in 1..Len(log) : log[i] = Rec(msg, p, k)

\* the strategy a record opens, 0 for a record that opens none
StrategyNo(msg) ==
    IF msg = "reroute check" THEN 1
    ELSE IF msg = "standard check" THEN 2
    ELSE IF msg = "js attempt" THEN 3
    ELSE IF msg = "fetch attempt" THEN 4
    ELSE 0

SuccessMsgs == {"reroute success", "padding success", "js success",
                "fetch success", "fetch success retry"}

Labels == {VUnknown, VReroute, VStandard, VLegacy, VFallback, VFallbackRetry}

\* the skip offsets and padding counts the specification names
SpecSkips == {0, 5, 9, 13}
SpecPaddings == {0, 1, 2, 3}

\* every combination of strategy 2 under padding count p has failed
PaddingFailed(p) ==
    \/ HasAt("padding failed", p, NA)
    \/ \A k \in SpecSkips : HasAt("lzma error", p, k)

Strategy2Exhausted == \A p \in SpecPaddings : PaddingFailed(p)

(***************************************************************************)
(* C1: one call of decode_hashlink yields exactly one outcome.  Until the  *)
(* call returns there is no outcome; when it has returned the outcome is   *)
(* either a document with a version label or a failure with a version     *)
(* label, never a mixture; no exception leaves the call without a value;   *)
(* and an outcome, once returned, is never replaced by another.            *)
(***************************************************************************)
C1_OneOutcomeNow ==
    /\ (pc # "done" => result = NoResult)
    /\ (pc = "done" =>
          /\ result.kind \in {"ok", "fail"}
          /\ result.version \in Labels
          /\ (result.kind = "ok" => result.err = "")
          /\ (result.kind = "fail" => result.err # "" /\ result.doc = << >>))

C1_ExactlyOneOutcome ==
    /\ []C1_OneOutcomeNow
    /\ [][result # NoResult => result' = result]_vars

\* an exception outside every inner handler was turned into a failure
C1_Witness ==
    /\ pc = "done"
    /\ result.kind = "fail"
    /\ result.err = "unexpected"

(***************************************************************************)
(* C2: the strategies are attempted in the order reroute, standard,        *)
(* legacy, network.  The records that open a strategy appear in strictly   *)
(* increasing order; strategy 2 is opened only if the reroute shape did    *)
(* not match; strategy 3 only if moreover strategy 2 did not apply or all  *)
(* its combinations failed; strategy 4 only after strategy 3 ran without   *)
(* a result; and no strategy is opened after a success record.             *)
(***************************************************************************)
C2_StrategyOrder ==
    /\ \A i, j \in 1..Len(log) :
          (i < j /\ StrategyNo(log[i].msg) > 0 /\ StrategyNo(log[j].msg) > 0)
             => StrategyNo(log[i].msg) < StrategyNo(log[j].msg)
    /\ (HasRec("standard check") \/ HasRec("js attempt")
          \/ HasRec("fetch attempt"))
          => (~RerouteMatch(hashlink).matched /\ ~HasRec("reroute check"))
    /\ HasRec("js attempt")
          => (StandardMatch(hashlink).matched
                => (HasRec("standard check") /\ Strategy2Exhausted))
    /\ HasRec("fetch attempt")
          => (HasRec("js attempt") /\ ~HasRec("js success"))
    /\ \A i, j \in 1..Len(log) :
          (i < j /\ log[i].msg \in SuccessMsgs)
             => StrategyNo(log[j].msg) = 0

\* strategy 3 produced the result after strategy 2 had run and failed
C2_Witness ==
    /\ pc = "done"
    /\ result.kind = "ok"
    /\ result.version = VLegacy
    /\ HasRec("standard check")
    /\ Strategy2Exhausted

(***************************************************************************)
(* C3: a hashlink of the reroute shape whose payload does not decode ends  *)
(* the call at once with a failure labelled as reroute: the call is never  *)
(* at a later strategy, no record of a later strategy is written and no    *)
(* GET is issued.                                                          *)
(***************************************************************************)
RerouteDecodes(h) ==
    LET d == B64Decode(RerouteMatch(h).payload) IN
    d.kind = "ok" /\ Utf8Decode(d.bytes).ok

C3_RerouteShortCircuit ==
    (RerouteMatch(hashlink).matched /\ ~RerouteDecodes(hashlink))
       => /\ pc \in {"reroute", "done"}
          /\ gets = << >>
          /\ \A i \in 1..Len(log) : StrategyNo(log[i].msg) \in {0, 1}
          /\ (pc = "done" => result = Failure("invalid reroute", VReroute))

C3_Witness ==
    /\ pc = "done"
    /\ RerouteMatch(hashlink).matched
    /\ ~RerouteDecodes(hashlink)
    /\ result.kind = "fail"

(***************************************************************************)
(* C4: round trip.  The hashlink the composer emits for a title and a      *)
(* document has the standard shape and not the reroute shape, and the      *)
(* call returns the document unchanged with the standard label, decoded    *)
(* by strategy 2 at its first combination.                                 *)
(***************************************************************************)
C4_RoundTrip ==
    (made.by = "composer" /\ pc # "idle")
       => /\ ~RerouteMatch(hashlink).matched
          /\ StandardMatch(hashlink).matched
          /\ StandardMatch(hashlink).title
                = Quote(TitleOrPlaceholder(made.title))
          /\ (pc = "done" =>
                /\ result = Success(made.text, VStandard)
                /\ log[Len(log)] = Rec("padding success", 0, 0)
                /\ ~HasRec("js attempt")
                /\ gets = << >>)

C4_Witness ==
    /\ made.by = "composer"
    /\ made.text = ExampleDoc
    /\ pc = "done"
    /\ result = Success(ExampleDoc, VStandard)

(***************************************************************************)
(* C5: a hashlink whose fragment carries the marker after a '#.../?'       *)
(* separator or after a '#...#' separator, with a payload that decodes,    *)
(* is recognized as the reroute shape and the call returns the decoded     *)
(* payload with the reroute label.                                         *)
(***************************************************************************)
C5_RerouteRecognized ==
    (/\ made.by = "reroute"
     /\ made.sep \in {<<SLASH, QMARK>>, <<HASH>>}
     /\ B64Decode(made.text).kind = "ok"
     /\ Utf8Decode(B64Decode(made.text).bytes).ok
     /\ pc # "idle")
       => /\ RerouteMatch(hashlink).matched
          /\ (pc = "done" =>
                result = Success(Utf8Decode(B64Decode(made.text).bytes).text,
                                 VReroute))

(***************************************************************************)
(* C6: a failure is returned to the caller only by the reroute strategy    *)
(* or by the network fallback, never while strategy 2 or strategy 3 is     *)
(* the one running.                                                        *)
(***************************************************************************)
C6_LocalFailuresSwallowed ==
    (pc = "done" /\ result.kind = "fail")
       => (HasRec("reroute invalid") \/ HasRec("fetch attempt"))

(***************************************************************************)
(* C7: when strategy 2 runs, the first combination (padding count outer,   *)
(* skip offset inner) for which both the transport decode and the          *)
(* decompression succeed ends the call with its document and the standard  *)
(* label, every earlier combination having been recorded as a failure.     *)
(***************************************************************************)
Good(p, k) ==
    LET d == B64Decode(StandardMatch(hashlink).payload \o Repeat(PAD, p)) IN
    d.kind = "ok" /\ LzmaDecompress(DropFirst(d.bytes, k)).ok

Earlier(p1, k1, p, k) == p1 < p \/ (p1 = p /\ k1 < k)

FirstGood(p, k) ==
    /\ Good(p, k)
    /\ \A p1 \in SpecPaddings, k1 \in SpecSkips :
          Earlier(p1, k1, p, k) => ~Good(p1, k1)

DocumentAt(p, k) ==
    LET d == B64Decode(StandardMatch(hashlink).payload \o Repeat(PAD, p)) IN
    Utf8Decode(LzmaDecompress(DropFirst(d.bytes, k)).data).text

C7_FirstGoodCombination ==
    (pc = "done" /\ HasRec("standard check"))
       => \A p \in SpecPaddings, k \in SpecSkips :
             FirstGood(p, k)
                => /\ result = Success(DocumentAt(p, k), VStandard)
                   /\ log[Len(log)] = Rec("padding success", p, k)
                   /\ \A p1 \in SpecPaddings, k1 \in SpecSkips :
                         Earlier(p1, k1, p, k)
                            => \/ HasAt("padding failed", p1, NA)
                               \/ HasAt("lzma error", p1, k1)

(***************************************************************************)
(* C8: a standard-shape hashlink whose payload is a stream of a document   *)
(* behind k junk bytes, k one of 0, 5, 9, 13, is decoded by strategy 2 at  *)
(* skip offset k to that document; the decompression fails at each of the  *)
(* other three offsets, and every attempt made at another offset is        *)
(* recorded as a failure.                                                  *)
(***************************************************************************)
\* padding characters missing from the payload of a framed input
Need(m) == Len(B64Encode(FramedBytes(m))) - Len(FramedPayload(m))

C8_SkipOffsetCoverage ==
    (made.by = "framed" /\ made.k \in SpecSkips /\ Utf8Decode(made.data).ok)
       => /\ \A k \in SpecSkips :
                LzmaDecompress(DropFirst(FramedBytes(made), k)).ok
                   <=> k = made.k
          /\ \A i \in 1..Len(log) :
                /\ log[i].msg = "lzma error" => log[i].skip # made.k
                /\ log[i].msg = "padding success" => log[i].skip = made.k
          /\ (pc = "done" =>
                /\ result = Success(Utf8Decode(made.data).text, VStandard)
                /\ log[Len(log)]
                      = Rec("padding success", Need(made), made.k)
                /\ \A k \in SpecSkips :
                      k < made.k => HasAt("lzma error", Need(made), k))

C8_Witness ==
    /\ made.by = "framed"
    /\ made.k = 9
    /\ made.data # << >>
    /\ pc = "done"
    /\ result.kind = "ok"
    /\ HasAt("lzma error", 0, 0)
    /\ HasAt("lzma error", 0, 5)

(***************************************************************************)
(* C9: padding repair.  For a validly encoded payload whose trailing       *)
(* padding was removed, strategy 2 tries the padding counts 0, 1, 2, 3 in  *)
(* that order, at most four of them; the tries below the count the         *)
(* payload needs fail, the try at that count is the first to succeed and   *)
(* yields the encoded bytes; and the single try of the legacy strategy     *)
(* succeeds as well.                                                       *)
(***************************************************************************)
PaddingTries == SelectSeq(log, LAMBDA r : r.msg = "padding attempt")

C9_PaddingRepair ==
    made.by = "framed"
       => /\ Need(made) \in {0, 1, 2}
          /\ Len(PaddingTries) <= 4
          /\ \A i \in 1..Len(PaddingTries) : PaddingTries[i].padding = i - 1
          /\ \A i \in 1..Len(log) :
                log[i].msg = "padding failed"
                   => log[i].padding < Need(made)
          /\ (pc = "skip" =>
                padding >= Need(made) /\ compressed = FramedBytes(made))
          /\ (pc \in {"legacy", "fetch", "redirect", "extract", "done"} =>
                \E i \in 1..Len(log) :
                   /\ log[i].padding = Need(made)
                   /\ log[i].msg \in {"lzma error", "padding success"})
          /\ ~HasRec("js failed: binascii")

\* two padding characters were missing; counts 0 and 1 failed, 2 decoded
C9_Witness ==
    /\ made.by = "framed"
    /\ made.strip
    /\ Need(made) = 2
    /\ pc = "done"
    /\ HasAt("padding failed", 0, NA)
    /\ HasAt("padding failed", 1, NA)
    /\ log[Len(log)].msg = "padding success"
    /\ log[Len(log)].padding = 2

(***************************************************************************)
(* C10: the network fallback is the last resort.  A GET is issued only if  *)
(* the reroute shape did not match, every combination of strategy 2        *)
(* failed when strategy 2 applied, and the legacy strategy ran without a   *)
(* result; and when the GET fails to connect the call ends with the        *)
(* failure "no connectivity".                                              *)
(***************************************************************************)
C10_FetchIsLastResort ==
    gets # << >>
       => /\ ~RerouteMatch(hashlink).matched
          /\ (StandardMatch(hashlink).matched => Strategy2Exhausted)
          /\ HasRec("js attempt")
          /\ ~HasRec("js success")
          /\ (gets[Len(gets)].kind = "connection" =>
                /\ pc = "done"
                /\ result = Failure("no connectivity", VFallback))

\* all four strategies ran on a standard-shape hashlink, no network
C10_Witness ==
    /\ pc = "done"
    /\ HasRec("standard check")
    /\ HasRec("js attempt")
    /\ Len(gets) = 1
    /\ gets[1].kind = "connection"
    /\ result.err = "no connectivity"

(***************************************************************************)
(* C11: once the network fallback is reached the call never goes back to   *)
(* a local strategy, and a GET that fails ends the call with a failure of  *)
(* its own kind: "no connectivity" for a connection failure, "bad status"  *)
(* for a status other than 200, "fetch failed" with the cause for a        *)
(* timeout or any other exception.                                         *)
(***************************************************************************)
C11_FetchOutcomeFinal ==
    /\ HasRec("fetch attempt") => pc \in {"redirect", "extract", "done"}
    /\ gets # << >> =>
          LET g == gets[Len(gets)] IN
          /\ g.kind = "connection" =>
                (pc = "done" /\ result.kind = "fail"
                   /\ result.err = "no connectivity")
          /\ g.kind = "exception" =>
                (pc = "done" /\ result.kind = "fail"
                   /\ result.err = "fetch failed")
          /\ (g.kind = "response" /\ g.status # STATUS_OK) =>
                (pc = "done" /\ result.kind = "fail"
                   /\ result.err = "bad status")

(***************************************************************************)
(* C12: when the first GET answers 200 with a page that contains the       *)
(* redirect marker, exactly one further GET is issued, to the versioned    *)
(* path, before any body extraction; otherwise no second GET is issued.    *)
(* No call issues more than two GETs and no local attempt is made twice.   *)
(***************************************************************************)
FirstPageRedirects ==
    /\ gets # << >>
    /\ gets[1].kind = "response"
    /\ gets[1].status = STATUS_OK
    /\ Contains(gets[1].page, REDIRECT)

LocalMsgs == {"reroute check", "standard check", "padding attempt",
              "padding failed", "lzma error", "js attempt"}

ExtractionMsgs == {"fetch success", "no body initial", "fetch success retry",
                   "no body retry"}

\* "https://itty.bitty.site/v1/"
VersionedPath == Prefix \o <<118, 49, SLASH>>

C12_OneRetry ==
    /\ Len(gets) <= 2
    /\ (FirstPageRedirects /\ pc \in {"extract", "done"}) =>
          /\ Len(gets) = 2
          /\ TakeFirst(gets[2].url, Len(VersionedPath)) = VersionedPath
          /\ \A i, j \in 1..Len(log) :
                (log[i].msg \in ExtractionMsgs /\ log[j].msg = "redirect retry")
                   => j < i
    /\ Len(gets) = 2 => FirstPageRedirects
    /\ \A i, j \in 1..Len(log) :
          (i < j /\ log[i] = log[j]) => log[i].msg \notin LocalMsgs

(***************************************************************************)
(* C13: a document returned by the network fallback is the body of the     *)
(* final response: of the retried response whenever a retry was issued,    *)
(* of the original response otherwise.                                     *)
(***************************************************************************)
C13_FinalResponseBody ==
    (pc = "done" /\ result.kind = "ok" /\ gets # << >>) =>
       LET g == gets[Len(gets)]
           b == BodyMatch(AcceptToast(g.page))
       IN
       /\ g.kind = "response"
       /\ g.status = STATUS_OK
       /\ b.matched
       /\ result.doc = Strip(b.body)

(***************************************************************************)
(* C14: a success of the network fallback carries the label with the       *)
(* via-retry suffix exactly when a second GET was issued, and the plain    *)
(* fallback label exactly when it was not.                                 *)
(***************************************************************************)
C14_RetryLabel ==
    (pc = "done" /\ result.kind = "ok" /\ gets # << >>) =>
       /\ result.version = VFallbackRetry <=> Len(gets) = 2
       /\ result.version = VFallback <=> Len(gets) = 1

(***************************************************************************)
(* C15: the label returned names the strategy that produced the outcome:   *)
(* the last strategy that was opened, which on success is the strategy     *)
(* whose success record closes the log.                                    *)
(***************************************************************************)
LastStrategy ==
    LET opened == {StrategyNo(log[i].msg) : i \in 1..Len(log)} IN
    CHOOSE n \in opened \cup {0} : \A m \in opened : m <= n

LabelsOf(n) ==
    IF n = 1 THEN {VReroute}
    ELSE IF n = 2 THEN {VStandard}
    ELSE IF n = 3 THEN {VLegacy}
    ELSE IF n = 4 THEN {VFallback, VFallbackRetry}
    ELSE {}

SuccessOf(n) ==
    IF n = 1 THEN {"reroute success"}
    ELSE IF n = 2 THEN {"padding success"}
    ELSE IF n = 3 THEN {"js success"}
    ELSE IF n = 4 THEN {"fetch success", "fetch success retry"}
    ELSE {}

C15_LabelNamesStrategy ==
    pc = "done" =>
       /\ result.version \in LabelsOf(LastStrategy)
       /\ result.kind = "ok" => log[Len(log)].msg \in SuccessOf(LastStrategy)

\* a failure inside the legacy strategy, after strategy 2 had run
C15_Witness ==
    /\ pc = "done"
    /\ result.kind = "fail"
    /\ result.err = "unexpected"
    /\ result.version = VLegacy
    /\ HasRec("standard check")

(***************************************************************************)
(* C16: every call terminates.  Its attempts are bounded by one reroute    *)
(* decode, sixteen padding-by-skip combinations (four transport decodes),  *)
(* one legacy decode and two GETs, and the call eventually returns.        *)
(***************************************************************************)
Count(msgs) == Len(SelectSeq(log, LAMBDA r : r.msg \in msgs))

C16_Bounded ==
    /\ Count({"reroute check"}) <= 1
    /\ Count({"padding attempt"}) <= 4
    /\ Count({"lzma error", "padding success"}) <= 16
    /\ Count({"js attempt"}) <= 1
    /\ Len(gets) <= 2

C16_Terminates == []C16_Bounded /\ ((pc # "idle") ~> (pc = "done"))

\* all sixteen combinations, the legacy decode and both GETs were spent
C16_Witness ==
    /\ pc = "done"
    /\ Count({"lzma error"}) = 16
    /\ Count({"js attempt"}) = 1
    /\ Len(gets) = 2

(***************************************************************************)
(* C19: when strategy 2 has ended without a document on a standard-shape   *)
(* hashlink, each of the sixteen (padding, skip) combinations has been     *)
(* attempted and has its own failure record, and the cascade has moved on  *)
(* to the legacy strategy.                                                 *)
(***************************************************************************)
C19_SixteenThenLegacy ==
    (/\ HasRec("standard check")
     /\ pc \in {"legacy", "fetch", "redirect", "extract", "done"}
     /\ ~(result.kind = "ok" /\ result.version = VStandard))
       => /\ \A p \in SpecPaddings, k \in SpecSkips :
                HasAt("lzma error", p, k)
          /\ (pc = "legacy" \/ HasRec("js attempt"))

(***************************************************************************)
(* C20: in the legacy strategy, a string or a byte result of the           *)
(* decompressor ends the call as a success with the legacy label, and a    *)
(* call that ran the legacy strategy without such a success has gone on    *)
(* to the network fallback.                                                *)
(***************************************************************************)
C20_LegacyOutcome ==
    HasRec("js attempt") =>
       /\ (js_answer.stage = "eval" /\ js_answer.kind \in {"str", "bytes"}
             /\ compressed = B64Decode(
                   b64_part \o Repeat(PAD, (4 - (Len(b64_part) % 4)) % 4)).bytes
             /\ B64Decode(
                   b64_part \o Repeat(PAD, (4 - (Len(b64_part) % 4)) % 4)).kind
                = "ok")
            => (pc = "done" /\ result.kind = "ok"
                  /\ result.version = VLegacy)
       /\ ~(result.kind = "ok" /\ result.version = VLegacy)
            => (pc \in {"fetch", "redirect", "extract"}
                  \/ HasRec("fetch attempt"))

Own == [Call EXCEPT !.log = SelectSeq(log, IsOwn)]

OtherRecords == SelectSeq(log, IsOther)

SeparatorAt(s, q) == q + 1 <= Len(s) /\ s[q] = SLASH /\ s[q + 1] = QMARK

HasSeparator(s) == \E q \in 1..Len(s) : SeparatorAt(s, q)

\* p is what follows the last '/?' of h
AfterLastSeparator(h, p) ==
    IF HasSeparator(h)
    THEN \E q \in 1..Len(h) :
            /\ SeparatorAt(h, q)
            /\ p = SubSeq(h, q + 2, Len(h))
            /\ ~HasSeparator(p)
    ELSE p = h

C21_LegacyPayload ==
    [][(pc = "legacy" /\ js_answer'.stage = "eval") =>
         /\ IF standard_match.matched
            THEN /\ b64_part' = b64_part
                 /\ HasAt("padding attempt", 0, NA)
            ELSE /\ AfterLastSeparator(hashlink, b64_part')
                 /\ ~HasRec("reroute check")
                 /\ ~HasRec("standard check")
                 /\ ~HasRec("padding attempt")
         /\ (result'.kind = "fail" /\ result'.err = "unexpected")
              => \/ js_answer'.kind \in {"exception", "bytes"}
                 \/ B64Decode(b64_part' \o
                       Repeat(PAD, (4 - (Len(b64_part') % 4)) % 4)).kind
                    = "value"]_vars

\* the legacy strategy ran on a hashlink of neither shape that holds two
\* '/?' and took "aGk="
C21_Witness ==
    /\ HasRec("js attempt")
    /\ js_answer.stage = "eval"
    /\ ~standard_match.matched
    /\ ~HasRec("standard check")
    /\ \E q1, q2 \in 1..Len(hashlink) :
          q1 < q2 /\ SeparatorAt(hashlink, q1) /\ SeparatorAt(hashlink, q2)
    /\ b64_part = <<97, 71, 107, 61>>

(***************************************************************************)
(* C22: where the network fallback sends its requests.  The first GET goes *)
(* to the hashlink as it was received, and a retried GET goes to the       *)
(* versioned path followed by '#' and the fragment of the hashlink, the    *)
(* whole text after its first '#'.                                         *)
(***************************************************************************)
\* f is the position of the first '#' of h
IsFirstHash(h, f) ==
    /\ f \in 1..Len(h)
    /\ h[f] = HASH
    /\ \A i \in 1..(f - 1) : h[i] # HASH

C22_SameFragment ==
    /\ Len(gets) >= 1 => gets[1].url = hashlink
    /\ Len(gets) >= 2 =>
          \E f \in 1..Len(hashlink) :
             /\ IsFirstHash(hashlink, f)
             /\ gets[2].url = VersionedPath \o <<HASH>>
                                \o SubSeq(hashlink, f + 1, Len(hashlink))

(***************************************************************************)
(* C23: a payload whose length is 1 more than a multiple of 4 is never     *)
(* transport-decoded.  On a standard-shape hashlink with such a payload    *)
(* each of the four padding counts of strategy 2 ends in a transport       *)
(* failure, no decompression is attempted, the transport decode of the     *)
(* legacy strategy fails as well, no local strategy returns a document,    *)
(* and the call ends in the network fallback.                              *)
(***************************************************************************)
C23_OneModFour ==
    (/\ standard_match.matched
     /\ Len(standard_match.payload) % 4 = 1)
       => /\ ~HasRec("lzma error")
          /\ ~HasRec("padding success")
          /\ pc \in {"legacy", "fetch", "redirect", "extract", "done"}
                => \A p \in SpecPaddings : HasAt("padding failed", p, NA)
          /\ js_answer.stage = "eval" => HasRec("js failed: binascii")
          /\ ~(result.kind = "ok"
                 /\ result.version \in {VStandard, VLegacy})
          /\ (pc = "done" /\ js_answer.kind # "exception")
                => HasRec("fetch attempt")

(***************************************************************************)
(* C24: in the network fallback the consent overlay is handled before      *)
(* anything else is done with a response.  The redirect marker is searched *)
(* in the first page after the overlay handling, and a document returned   *)
(* by the fallback is the body of a response after the overlay handling;   *)
(* when that response held the overlay marker, the handling is recorded    *)
(* before the extraction.                                                  *)
(***************************************************************************)
FirstPageReceived ==
    /\ gets # << >>
    /\ gets[1].kind = "response"
    /\ gets[1].status = STATUS_OK

\* a record with message a comes before a record with message b
Precedes(a, b) ==
    \E i, j \in 1..Len(log) : i < j /\ log[i].msg = a /\ log[j].msg = b

C24_OverlayFirst ==
    /\ (FirstPageReceived /\ pc \in {"redirect", "extract", "done"}) =>
          /\ html_content = AcceptToast(gets[1].page)
          /\ Contains(gets[1].page, TOAST_OPEN) => HasRec("toast accepted")
    /\ Len(gets) = 2 => Contains(AcceptToast(gets[1].page), REDIRECT)
    /\ (pc = "extract" /\ Len(gets) = 1)
          => ~Contains(AcceptToast(gets[1].page), REDIRECT)
    /\ (pc = "done" /\ result.kind = "ok"
          /\ result.version \in {VFallback, VFallbackRetry}) =>
          LET i == IF result.version = VFallbackRetry THEN 2 ELSE 1
              b == BodyMatch(AcceptToast(gets[i].page))
          IN
          /\ i <= Len(gets)
          /\ b.matched
          /\ result.doc = Strip(b.body)
          /\ Contains(gets[i].page, TOAST_OPEN) =>
                IF i = 2
                THEN Precedes("toast accepted retry", "fetch success retry")
                ELSE Precedes("toast accepted", "fetch success")

\* a document taken from a retried response that held the overlay, with
\* its dismiss control, in front of the body
C24_Witness ==
    /\ pc = "done"
    /\ Len(gets) = 2
    /\ Contains(gets[2].page, TOAST_OPEN)
    /\ Contains(gets[2].page, BUTTON)
    /\ result = Success(<<122>>, VFallbackRetry)

(***************************************************************************)
(* C25: the call never ends as 'Unknown format'.  A call that did not take *)
(* the reroute branch and got no document from strategy 2 or from the      *)
(* legacy strategy has attempted the network fallback, and a call that     *)
(* attempted the network fallback has returned one of the fallback's own   *)
(* outcomes under a fallback label.                                        *)
(***************************************************************************)
FallbackErrors == {"no connectivity", "fetch failed", "bad status",
                   "no content"}

C25_UnknownFormatUnreachable ==
    /\ result.err # "unknown format"
    /\ (/\ pc = "done"
        /\ ~HasRec("reroute check")
        /\ ~(result.kind = "ok" /\ result.version \in {VStandard, VLegacy}))
          => HasRec("fetch attempt")
    /\ (pc = "done" /\ HasRec("fetch attempt"))
          => /\ result.kind \in {"ok", "fail"}
             /\ result.version \in {VFallback, VFallbackRetry}
             /\ result.kind = "fail" => result.err \in FallbackErrors

====
